---- MODULE Spec2Model ----
(***************************************************************************)
(* Model of the media acquisition pipeline of python_twitter_downloader:   *)
(* video variant selection (modules/twitter.py), download_media with its   *)
(* on-disk check, retry and write (modules/media.py), the blacklist filter *)
(* and update (modules/twitter.py) and the run loop (download.py).         *)
(***************************************************************************)
EXTENDS Integers, Sequences, FiniteSets, TLC

VARIABLES
    \* ---- variant selection on one media entity (SpecVideo) ----
    given,          \* media['video_info']['variants'] as received
    variants_list,  \* the same list object after the call (pop() mutates it)
    picked,         \* "pending", or the result of the handler
    \* ---- one run of download.py (Spec) ----
    pc,             \* position of the run
    args,           \* disable_blacklist, and download_media's force_download
    tweets,         \* the Status objects of full_tweets_list, by id (mutable)
    full_tweets_list, \* ids in feed order
    tweets_list,    \* ids left after the blacklist filter
    pos,            \* index in tweets_list of the tweet being processed
    main,           \* main's counters: downloaded_tweets, downloaded_media_count,
                    \* new_blacklisted_tweets
    call,           \* download_media's locals: urls_list, index, tweet_media_count,
                    \* content, and _download_url's attempt number and clock
    disk,           \* download directory: exists, author subdirectories, files
    blfile,         \* the blacklist file
    get_seconds,    \* how long one requests.get can take, in seconds
    \* ---- history (read by the properties only) ----
    disk0,          \* disk when the run started
    blfile0,        \* blacklist file when the run started
    outcomes,       \* what each finished download_media call returned and did
    requested,      \* every HTTP GET issued in the run: tweet id, URL, clock
    written,        \* every media file write that succeeded: tweet id, path
    bl_log,         \* every access to the blacklist file, in order
    prev_runs,      \* the runs of download.py completed before this one
    \* ---- extraction applied to one tweet (SpecExtract) ----
    post0,          \* the Status object as the feed delivered it
    post,           \* the same object now
    extractions,    \* what each call of get_all_media_from_tweet on it did
    \* ---- file names (SpecCodec) ----
    fields,         \* the tweet, media_count and extension given to _build_filename
    file_name,      \* the file name built from them, as text
    parsed          \* "pending", or what groupdict_from_filename did with it

video_vars == <<given, variants_list, picked>>
extract_vars == <<post0, post, extractions>>
codec_vars == <<fields, file_name, parsed>>
run_vars == <<args, tweets, full_tweets_list, tweets_list, pos, main, call, disk, blfile,
              get_seconds>>
hist_vars == <<disk0, blfile0, outcomes, requested, written, bl_log>>
vars == <<given, variants_list, picked, pc, args, tweets, full_tweets_list, tweets_list,
          pos, main, call, disk, blfile, get_seconds, disk0, blfile0, outcomes,
          requested, written, bl_log, prev_runs, post0, post, extractions,
          fields, file_name, parsed>>

(***************************************************************************)
(* Bounds                                                                  *)
(***************************************************************************)
MaxVariants == 3
MaxBitrate == 2

(***************************************************************************)
(* URLs and variants.  A URL is a record of a distinguishing number and    *)
(* the extension its path ends with.  A variant is a dictionary with the   *)
(* key 'url' and, optionally, the key 'bitrate'.                           *)
(***************************************************************************)
Url(n, e) == [n |-> n, ext |-> e]
NoUrl == Url(0, "")

Variants ==
    {[url |-> Url(n, "mp4")] : n \in 1..MaxVariants}
    \cup {[url |-> Url(n, "mp4"), bitrate |-> b] : n \in 1..MaxVariants, b \in 0..MaxBitrate}

\* lists of variants with pairwise different URLs, of length 0..MaxVariants
VariantLists ==
    UNION {{s \in [1..k -> Variants] :
               \A i, j \in 1..k : i # j => s[i].url # s[j].url} : k \in 0..MaxVariants}

HasBitrate(v) == "bitrate" \in DOMAIN v

\* Python truthiness of variant.get('bitrate'): None and 0 are both falsy
get_bitrate_truthy(v) == HasBitrate(v) /\ v.bitrate # 0

Front(s) == SubSeq(s, 1, Len(s) - 1)
Last(s) == s[Len(s)]

\* twitter.py 45-54: while the list is not empty and the current variant has
\* no (truthy) bitrate, pop the next one from the end
\* DiscardNoBitrate with a slip: nothing is discarded
DiscardKeepLast(list, hq) == [list |-> list, hq |-> hq]

RECURSIVE DiscardNoBitrate(_, _)
DiscardNoBitrate(list, hq) ==
    IF list # <<>> /\ ~get_bitrate_truthy(hq)
    THEN DiscardNoBitrate(Front(list), Last(list))
    ELSE [list |-> list, hq |-> hq]

\* twitter.py 57-68: scan what is left of the list in order; hq['bitrate']
\* raises KeyError when hq has no such key
RECURSIVE PickHighest(_, _, _)
PickHighest(list, i, hq) ==
    IF i > Len(list) THEN [raised |-> FALSE, hq |-> hq]
    ELSE IF get_bitrate_truthy(list[i])
         THEN IF ~HasBitrate(hq) THEN [raised |-> TRUE, hq |-> hq]
              ELSE IF list[i].bitrate > hq.bitrate
                   THEN PickHighest(list, i + 1, list[i])
                   ELSE PickHighest(list, i + 1, hq)
         ELSE PickHighest(list, i + 1, hq)

\* twitter.py 30-77.  The result records the URL returned, whether the call
\* raised (pop from an empty list, KeyError) and the list as the call left it.
_handle_media_type_video(variants) ==
    IF variants = <<>>
    THEN [raised |-> TRUE, url |-> NoUrl, variants |-> variants]
    ELSE LET d == DiscardNoBitrate(Front(variants), Last(variants))
             p == PickHighest(d.list, 1, d.hq)
         IN  [raised |-> p.raised,
              url |-> IF p.raised THEN NoUrl ELSE p.hq.url,
              variants |-> d.list]

\* twitter.py 80-89: variants[0], IndexError on an empty list
_handle_media_type_animated_gif(variants) ==
    IF variants = <<>>
    THEN [raised |-> TRUE, url |-> NoUrl, variants |-> variants]
    ELSE [raised |-> FALSE, url |-> variants[1].url, variants |-> variants]

(***************************************************************************)
(* Tweets.  A Status object has id_str, user.screen_name, created_at and,  *)
(* when the tweet carries media, the attribute extended_entities with its  *)
(* 'media' list (has_ee models hasattr).                                   *)
(***************************************************************************)
Photo(n) == [type |-> "photo", media_url_https |-> Url(n, "jpg"), variants |-> <<>>]
Video(n, vs) == [type |-> "video", media_url_https |-> Url(n, "jpg"), variants |-> vs]
Gif(n, vs) == [type |-> "animated_gif", media_url_https |-> Url(n, "jpg"), variants |-> vs]
Other(n) == [type |-> "live_event", media_url_https |-> Url(n, "jpg"), variants |-> <<>>]

Status(id, ee, media) ==
    [id_str |-> id, user |-> "ann", created_at |-> "2022-08-09", has_ee |-> ee,
     media |-> media]

\* the tweets the feed can return
Catalog ==
    <<Status(1, FALSE, <<>>),
      Status(2, TRUE, <<Photo(20),
                        Video(21, <<[url |-> Url(22, "mp4"), bitrate |-> 1],
                                    [url |-> Url(23, "mp4"), bitrate |-> 2],
                                    [url |-> Url(24, "m3u8")]>>)>>),
      Status(3, TRUE, <<Other(30), Gif(31, <<[url |-> Url(32, "mp4"), bitrate |-> 0]>>)>>),
      Status(4, TRUE, <<Other(40)>>),
      Status(5, TRUE, <<Video(51, <<>>)>>)>>
NumPosts == Len(Catalog)

\* twitter.py 142-152: the loop over tweet.extended_entities['media'];
\* a handler that raises ends the call, with the entries already handled
\* left as the handlers changed them
RECURSIVE ExtractMedia(_, _, _)
ExtractMedia(media, i, media_urls) ==
    IF i > Len(media) THEN [raised |-> FALSE, urls |-> media_urls, media |-> media]
    ELSE LET m == media[i] IN
         IF m.type = "animated_gif"
         THEN LET r == _handle_media_type_animated_gif(m.variants) IN
              IF r.raised THEN [raised |-> TRUE, urls |-> <<>>, media |-> media]
              ELSE ExtractMedia(media, i + 1, Append(media_urls, <<r.url, FALSE>>))
         ELSE IF m.type = "video"
         THEN LET r == _handle_media_type_video(m.variants)
                  after == [media EXCEPT ![i].variants = r.variants] IN
              IF r.raised THEN [raised |-> TRUE, urls |-> <<>>, media |-> after]
              ELSE ExtractMedia(after, i + 1, Append(media_urls, <<r.url, FALSE>>))
         ELSE IF m.type = "photo"
         THEN ExtractMedia(media, i + 1, Append(media_urls, <<m.media_url_https, TRUE>>))
         ELSE ExtractMedia(media, i + 1, media_urls)

\* twitter.py 119-155
get_all_media_from_tweet(tweet) ==
    IF ~tweet.has_ee
    THEN [raised |-> FALSE, urls |-> <<>>, media |-> tweet.media]
    ELSE ExtractMedia(tweet.media, 1, <<>>)

(***************************************************************************)
(* The download directory.  files maps each existing regular file to its   *)
(* content; a path is the subdirectory ("" for the download directory      *)
(* itself) and the file name.                                              *)
(***************************************************************************)
NoDisk == [dir_exists |-> FALSE, subdirs |-> {}, files |-> <<>>]
OldFile(sz) == [kind |-> "old", size |-> sz]
Payload(url, sz) == [kind |-> "payload", url |-> url, size |-> sz]
Path(sub, filename) == [sub |-> sub, name |-> filename]

\* media.py 77-93
_build_filename(tweet, media_count, extension) ==
    [account |-> tweet.user, date |-> tweet.created_at, id |-> tweet.id_str,
     media_count |-> media_count, extension |-> extension]

\* _build_filepath with a slip: the download directory is not validated
build_filepath_unchecked(d, filename, tweet) ==
    [raised |-> FALSE, dst |-> Path("", filename),
     extra |-> IF tweet.user \in d.subdirs THEN <<Path(tweet.user, filename)>> ELSE <<>>]

\* media.py 96-122: the extra path is the empty string (here the empty
\* sequence) unless directory/username is a directory
_build_filepath(d, filename, tweet) ==
    IF ~d.dir_exists
    THEN [raised |-> TRUE, dst |-> Path("", filename), extra |-> <<>>]
    ELSE [raised |-> FALSE, dst |-> Path("", filename),
          extra |-> IF tweet.user \in d.subdirs
                    THEN <<Path(tweet.user, filename)>> ELSE <<>>]

\* _check_file_already_on_disk with a slip: the size is not looked at
check_is_file_only(d, filepath) ==
    filepath # <<>> /\ filepath[1] \in DOMAIN d.files

\* media.py 125-141, on a path or the empty string
_check_file_already_on_disk(d, filepath) ==
    /\ filepath # <<>>
    /\ filepath[1] \in DOMAIN d.files
    /\ d.files[filepath[1]].size > 0

\* already_on_disk with a slip: the author's subdirectory is not looked at
only_download_directory(d, fp) == _check_file_already_on_disk(d, <<fp.dst>>)

\* media.py 59
already_on_disk(d, fp) ==
    \/ _check_file_already_on_disk(d, fp.extra)
    \/ _check_file_already_on_disk(d, <<fp.dst>>)

\* short_circuits with a slip: the files on disk are never looked at
short_circuits_never(force_download, d, fp) == FALSE

\* short_circuits with a slip: force_download is not looked at
short_circuits_forced(force_download, d, fp) == already_on_disk(d, fp)

\* media.py 57-61: unless the download is forced, a file already on disk
\* ends the call
short_circuits(force_download, d, fp) == ~force_download /\ already_on_disk(d, fp)

\* media.py 167-180
_get_file_extension_from_url(url) == url.ext

\* media.py 64-66
with_size_info(url, extension) ==
    [n |-> url.n, ext |-> url.ext, query |-> "format=" \o extension \o "&name=large"]

(***************************************************************************)
(* The blacklist file: absent, unparsable, or a YAML mapping whose key     *)
(* blacklisted_ids holds a list of ids.                                    *)
(***************************************************************************)
BlAbsent == [kind |-> "absent"]
BlMalformed == [kind |-> "malformed"]
BlList(ids) == [kind |-> "list", ids |-> ids]

Range(s) == {s[i] : i \in DOMAIN s}
SelectIds(s, S) == SelectSeq(s, LAMBDA t : t \in S)
\* the orders list(set(...)) can produce
Orders(S) == {s \in [1..Cardinality(S) -> S] : \A i, j \in DOMAIN s : i # j => s[i] # s[j]}

\* how an open(..., 'w') followed by write() can end
WriteOutcomes == {"ok", "open_fails", "write_fails"}

\* twitter.py 11-27: IOError is logged and raised again; a failed write()
\* leaves the file truncated, which no later load can parse
_create_blacklist_file(f, blacklist, wr) ==
    IF wr = "ok" THEN [raised |-> FALSE, file |-> BlList(blacklist)]
    ELSE IF wr = "open_fails" THEN [raised |-> TRUE, file |-> f]
    ELSE [raised |-> TRUE, file |-> BlMalformed]

\* _load_blacklisted_tweets_file with a slip: a missing file is taken as an
\* empty blacklist without being created
load_without_create(f, wr) ==
    IF f.kind = "malformed"
    THEN [raised |-> TRUE, ids |-> <<>>, file |-> f, log |-> <<"read">>]
    ELSE [raised |-> FALSE, ids |-> IF f.kind = "list" THEN f.ids ELSE <<>>,
          file |-> f, log |-> <<"read">>]

\* twitter.py 92-116: a missing file is created empty, a file that does not
\* parse or lacks the key raises
_load_blacklisted_tweets_file(f, wr) ==
    IF f.kind = "list"
    THEN [raised |-> FALSE, ids |-> f.ids, file |-> f, log |-> <<"read">>]
    ELSE IF f.kind = "malformed"
    THEN [raised |-> TRUE, ids |-> <<>>, file |-> f, log |-> <<"read">>]
    ELSE LET c == _create_blacklist_file(f, <<>>, wr) IN
         [raised |-> c.raised, ids |-> <<>>, file |-> c.file,
          log |-> <<"read", "create">>]

\* filter_list with a slip: the test is inverted
filter_list_inverted(ids, blacklisted_tweets) ==
    SelectSeq(ids, LAMBDA t : t \in Range(blacklisted_tweets))

\* twitter.py 173-179
filter_list(ids, blacklisted_tweets) == SelectSeq(ids, LAMBDA t : t \notin Range(blacklisted_tweets))

\* valid_blacklisted with a slip: nothing is filtered out
valid_blacklisted_all(previous, fetched) == previous

\* valid_blacklisted with a slip: the test is inverted, the ids the feed
\* still returns are the ones dropped
valid_blacklisted_expired(previous, fetched) ==
    SelectSeq(previous, LAMBDA t : t \notin Range(fetched))

\* valid_blacklisted with a slip: the fetched ids are kept, not the
\* previous ones among them
valid_blacklisted_fetched(previous, fetched) == fetched

\* twitter.py 222-230
valid_blacklisted(previous, fetched) == SelectIds(previous, Range(fetched))

\* blacklist_unchanged with a slip: expired ids are not looked at
blacklist_unchanged_new_only(new, valid, previous) == new = <<>>

\* blacklist_unchanged with a slip: the 'not' before the new entries is lost
blacklist_unchanged_not_lost(new, valid, previous) ==
    new # <<>> /\ Len(valid) = Len(previous)

\* twitter.py 233-234
blacklist_unchanged(new, valid, previous) == new = <<>> /\ Len(valid) = Len(previous)

\* twitter.py 244: list(set(valid + new)), in any of its orders
full_blacklists(valid, new) == Orders(Range(valid \o new))

(***************************************************************************)
(* Retry policy of _download_url (media.py 144-150)                        *)
(***************************************************************************)
MaxAttempts == 5
MaxDelay == 60
WaitFixed == 3

\* seconds one requests.get can take before it returns or raises: the
\* timeout of media.py 24 bounds each wait for bytes, not the whole request
QuickGet == 1
SlowGet == 28
\* what requests.get can end with: an exception (transport error, non-2xx
\* status) or a 2xx response with an empty or a non-empty body
Responses == {[ok |-> FALSE, size |-> 0], [ok |-> TRUE, size |-> 0], [ok |-> TRUE, size |-> 1]}

\* wait_fixed(3): the clock after the sleep that follows a failure at t
wait_fixed(t) == t + WaitFixed

\* stop_after_attempt(5) | stop_after_delay(60), evaluated after a failure
retry_stops(attempt_number, seconds_since_start) ==
    attempt_number >= MaxAttempts \/ seconds_since_start >= MaxDelay

\* after_failure with a slip: the failure is swallowed when the policy
\* stops, and main goes on to the update of the blacklist
after_failure_then_update(attempt_number, seconds_since_start) ==
    IF retry_stops(attempt_number, seconds_since_start) THEN "update" ELSE "get"

\* after_failure with a slip: the stop condition is lost, every failure is
\* followed by another attempt
after_failure_never_stops(attempt_number, seconds_since_start) == "get"

\* after_failure with a slip: the attempts are not counted
after_failure_delay_only(attempt_number, seconds_since_start) ==
    IF seconds_since_start >= MaxDelay THEN "failed" ELSE "get"

\* after_failure with a slip: the failure is swallowed when the policy
\* stops, and download_media goes on to write
after_failure_swallowed(attempt_number, seconds_since_start) ==
    IF retry_stops(attempt_number, seconds_since_start) THEN "write" ELSE "get"

\* reraise=True: when the policy stops, the last DownloadFailed leaves
\* _download_url, download_media (media.py 69) and main (download.py 47),
\* none of which catches it, and reaches the handler of download.py 73-76;
\* otherwise the next attempt is due
after_failure(attempt_number, seconds_since_start) ==
    IF retry_stops(attempt_number, seconds_since_start) THEN "failed" ELSE "get"

(***************************************************************************)
(* The run of download.py                                                  *)
(***************************************************************************)
NoMain == [downloaded_tweets |-> 0, downloaded_media_count |-> 0,
           new_blacklisted_tweets |-> <<>>]
NoCall == [urls_list |-> <<>>, index |-> 0, tweet_media_count |-> 0, url |-> NoUrl,
           dst_filepath |-> <<>>, content |-> <<>>, attempt |-> 0, gets |-> 0,
           clock |-> 0, failed_at |-> <<>>]

\* main_after_download with a slip: media_found is not looked at
main_after_download_count_only(m, disable_blacklist, id, tweet_media_count, media_found) ==
    IF tweet_media_count > 0
    THEN [m EXCEPT !.downloaded_tweets = @ + 1,
                   !.downloaded_media_count = @ + tweet_media_count]
    ELSE IF ~disable_blacklist
    THEN [m EXCEPT !.new_blacklisted_tweets = Append(@, id)]
    ELSE m

\* main_after_download with a slip: the 'not' before media_found is lost
main_after_download_found(m, disable_blacklist, id, tweet_media_count, media_found) ==
    IF tweet_media_count > 0
    THEN [m EXCEPT !.downloaded_tweets = @ + 1,
                   !.downloaded_media_count = @ + tweet_media_count]
    ELSE IF media_found /\ ~disable_blacklist
    THEN [m EXCEPT !.new_blacklisted_tweets = Append(@, id)]
    ELSE m

\* download.py 48-53: what main does with download_media's result
main_after_download(m, disable_blacklist, id, tweet_media_count, media_found) ==
    IF tweet_media_count > 0
    THEN [m EXCEPT !.downloaded_tweets = @ + 1,
                   !.downloaded_media_count = @ + tweet_media_count]
    ELSE IF ~media_found /\ ~disable_blacklist
    THEN [m EXCEPT !.new_blacklisted_tweets = Append(@, id)]
    ELSE m

\* AfterLoop with a slip: the blacklist is never updated
AfterLoopNoUpdate == "done"

\* download.py 57-59 (the update is skipped with --disable-blacklist)
AfterLoop == IF args.disable_blacklist THEN "done" ELSE "update"

\* download_media returns (count, found) to the loop of download.py 45-53
Return(count, found) ==
    /\ main' = main_after_download(main, args.disable_blacklist, tweets_list[pos], count, found)
    /\ outcomes' = Append(outcomes, [id |-> tweets_list[pos], count |-> count,
                                     found |-> found])
    /\ call' = NoCall
    /\ pos' = pos + 1
    /\ pc' = IF pos + 1 > Len(tweets_list) THEN AfterLoop ELSE "post"

MaxFeed == 2
MaxOld == 2

\* feeds: tweets of the catalog, each at most once
Feeds ==
    UNION {{s \in [1..k -> 1..NumPosts] : \A i, j \in 1..k : i # j => s[i] # s[j]}
           : k \in 0..MaxFeed}

RECURSIVE Sorted(_)
Sorted(S) ==
    IF S = {} THEN <<>>
    ELSE LET m == CHOOSE x \in S : \A y \in S : x <= y IN <<m>> \o Sorted(S \ {m})

\* an id the feed no longer returns
StaleId == NumPosts + 1

\* blacklist files before the run: none, one that does not parse, or a list
\* of at most k ids, of tweets of the feed or of one the feed has lost
InitBlFiles(feed, k) ==
    {BlAbsent, BlMalformed}
    \cup {BlList(Sorted(S)) :
            S \in {T \in SUBSET (Range(feed) \cup {StaleId}) : Cardinality(T) <= k}}

\* the files download_media can write for a tweet
TweetNames(t) ==
    LET r == get_all_media_from_tweet(Catalog[t]) IN
    {_build_filename(Catalog[t], i, _get_file_extension_from_url(r.urls[i][1]))
       : i \in 1..Len(r.urls)}
FeedPaths(feed, subdirs) ==
    {Path(sub, n) : sub \in {""} \cup subdirs, n \in UNION {TweetNames(t) : t \in Range(feed)}}

\* download directories before the run: missing, or holding exactly k files
\* (empty or not) that an earlier run over these tweets could have left, in
\* the directory itself or in the author's subdirectory
InitDisks(feed, k) ==
    (IF k = 0 THEN {NoDisk} ELSE {})
    \cup UNION {UNION {{[dir_exists |-> TRUE, subdirs |-> sd, files |-> f]
                          : f \in [P -> {OldFile(0), OldFile(1)}]}
                       : P \in {Q \in SUBSET FeedPaths(feed, sd) : Cardinality(Q) = k}}
                : sd \in SUBSET {"ann"}}

\* the variables of the other specifications, at rest
NoExtract == post0 = <<>> /\ post = <<>> /\ extractions = <<>>
NoCodec == fields = <<>> /\ file_name = <<>> /\ parsed = [kind |-> "pending"]

InitRun ==
    /\ pc = "filter"
    /\ tweets = [t \in Range(full_tweets_list) |-> Catalog[t]]
    /\ tweets_list = <<>>
    /\ pos = 0
    /\ main = NoMain
    /\ call = NoCall
    /\ disk0 = disk
    /\ blfile0 = blfile
    /\ outcomes = <<>>
    /\ requested = {}
    /\ written = <<>>
    /\ bl_log = <<>>
    /\ prev_runs = <<>>
    /\ given = <<>>
    /\ variants_list = <<>>
    /\ picked = [kind |-> "pending"]
    /\ NoExtract
    /\ NoCodec

\* a run of download.py (which calls download_media without force_download)
\* over any feed, with at most MaxOld files and blacklist entries left by
\* earlier runs
Init ==
    /\ args \in [disable_blacklist : BOOLEAN, force_download : {FALSE}]
    /\ full_tweets_list \in Feeds
    /\ \E k \in 0..MaxOld :
         /\ disk \in InitDisks(full_tweets_list, k)
         /\ blfile \in InitBlFiles(full_tweets_list, MaxOld - k)
    /\ args.disable_blacklist => blfile = BlAbsent
    /\ get_seconds = {QuickGet}
    /\ InitRun

\* the accesses of one call, as entries of bl_log
Logged(ops, by, file) ==
    [i \in DOMAIN ops |-> [op |-> ops[i], by |-> by, file |-> file]]

\* download.py 38-40 with twitter.py 158-179
FilterBlacklisted ==
    /\ pc = "filter"
    /\ ~args.disable_blacklist
    /\ \E wr \in WriteOutcomes :
         LET l == _load_blacklisted_tweets_file(blfile, wr)
             filtered == filter_list(full_tweets_list, l.ids) IN
         /\ blfile.kind # "absent" => wr = "ok"
         /\ blfile' = l.file
         /\ bl_log' = bl_log \o Logged(l.log, "filter", l.file)
         /\ IF l.raised
            THEN pc' = "failed" /\ UNCHANGED <<tweets_list, pos>>
            ELSE /\ tweets_list' = filtered
                 /\ pos' = 1
                 /\ pc' = IF filtered = <<>> THEN AfterLoop ELSE "post"
    /\ UNCHANGED <<get_seconds, video_vars, extract_vars, codec_vars, prev_runs, args, tweets, full_tweets_list, main, call, disk,
                   disk0, blfile0, outcomes, requested, written>>

\* download.py 41-42
UseFullList ==
    /\ pc = "filter"
    /\ args.disable_blacklist
    /\ tweets_list' = full_tweets_list
    /\ pos' = 1
    /\ pc' = IF full_tweets_list = <<>> THEN AfterLoop ELSE "post"
    /\ UNCHANGED <<get_seconds, video_vars, extract_vars, codec_vars, prev_runs, args, tweets, full_tweets_list, main, call, disk, blfile,
                   hist_vars>>

\* download.py 45-47 with media.py 46-49: the next tweet is extracted
BeginDownload ==
    /\ pc = "post"
    /\ LET id == tweets_list[pos]
           r == get_all_media_from_tweet(tweets[id]) IN
       /\ tweets' = [tweets EXCEPT ![id].media = r.media]
       /\ IF r.raised
          THEN pc' = "failed" /\ UNCHANGED <<main, call, pos, outcomes>>
          ELSE IF r.urls = <<>>
          THEN Return(0, FALSE)
          ELSE /\ call' = [NoCall EXCEPT !.urls_list = r.urls, !.index = 1]
               /\ pc' = "check"
               /\ UNCHANGED <<main, pos, outcomes>>
    /\ UNCHANGED <<get_seconds, video_vars, extract_vars, codec_vars, prev_runs, args, full_tweets_list, tweets_list, disk, blfile,
                   disk0, blfile0, requested, written, bl_log>>

\* media.py 51-66: file name, paths, and the check for a file on disk
CheckDisk ==
    /\ pc = "check"
    /\ LET tweet == tweets[tweets_list[pos]]
           url == call.urls_list[call.index][1]
           requires_size_info == call.urls_list[call.index][2]
           extension == _get_file_extension_from_url(url)
           dst_filename == _build_filename(tweet, call.index, extension)
           fp == _build_filepath(disk, dst_filename, tweet) IN
       IF fp.raised
       THEN pc' = "failed" /\ UNCHANGED <<main, call, pos, outcomes>>
       ELSE IF short_circuits(args.force_download, disk, fp)
       THEN Return(0, TRUE)
       ELSE /\ call' = [call EXCEPT
                          !.url = IF requires_size_info
                                  THEN with_size_info(url, extension) ELSE url,
                          !.dst_filepath = <<fp.dst>>,
                          !.attempt = 0, !.gets = 0, !.clock = 0,
                          !.failed_at = <<>>]
            /\ pc' = "get"
            /\ UNCHANGED <<main, pos, outcomes>>
    /\ UNCHANGED <<get_seconds, video_vars, extract_vars, codec_vars, prev_runs, args, tweets, full_tweets_list, tweets_list, disk, blfile,
                   disk0, blfile0, requested, written, bl_log>>

\* media.py 144-164: one attempt of _download_url under the retry
\* decorator.  It returns the body; or it fails and, unless the stop
\* condition holds, the wait is slept and the next attempt is due; or it
\* fails for the last time and DownloadFailed is raised again.
HttpGet ==
    /\ pc = "get"
    /\ \E secs \in get_seconds, resp \in Responses :
         LET n == call.attempt + 1
             t == call.clock + secs IN
         /\ requested' = requested \cup {[id |-> tweets_list[pos], url |-> call.url]}
         /\ IF resp.ok
            THEN /\ call' = [call EXCEPT !.attempt = n, !.gets = @ + 1, !.clock = t,
                                         !.failed_at = <<>>,
                                         !.content = <<Payload(call.url, resp.size)>>]
                 /\ pc' = "write"
            ELSE /\ call' = [call EXCEPT
                                !.attempt = n, !.gets = @ + 1, !.failed_at = <<t>>,
                                !.clock = IF after_failure(n, t) = "get"
                                          THEN wait_fixed(t) ELSE t]
                 /\ pc' = after_failure(n, t)
    /\ UNCHANGED <<get_seconds, video_vars, extract_vars, codec_vars, prev_runs, args, tweets, full_tweets_list, tweets_list,
                   pos, main, disk, blfile, disk0, blfile0, outcomes, written, bl_log>>

\* media.py 70-74 with 183-196: the write, then the next descriptor or the
\* return to main
WriteToDisk ==
    /\ pc = "write"
    /\ \E wr \in WriteOutcomes :
         LET path == call.dst_filepath[1] IN
         IF wr = "ok"
         THEN /\ disk' = [disk EXCEPT !.files = (path :> call.content[1]) @@ @]
              /\ written' = Append(written, [id |-> tweets_list[pos], path |-> path])
              /\ IF call.index = Len(call.urls_list)
                 THEN Return(call.tweet_media_count + 1, TRUE)
                 ELSE /\ call' = [NoCall EXCEPT !.urls_list = call.urls_list,
                                                !.tweet_media_count = call.tweet_media_count + 1,
                                                !.index = call.index + 1]
                      /\ pc' = "check"
                      /\ UNCHANGED <<main, pos, outcomes>>
         ELSE /\ disk' = IF wr = "open_fails" THEN disk
                         ELSE [disk EXCEPT !.files = (path :> OldFile(0)) @@ @]
              /\ pc' = "failed"
              /\ call' = NoCall
              /\ UNCHANGED <<main, pos, outcomes, written>>
    /\ UNCHANGED <<get_seconds, video_vars, extract_vars, codec_vars, prev_runs, args, tweets, full_tweets_list, tweets_list, blfile,
                   disk0, blfile0, requested, bl_log>>

\* download.py 58-59 with twitter.py 210-252
UpdateBlacklist ==
    /\ pc = "update"
    /\ \E wr \in WriteOutcomes, wr2 \in WriteOutcomes :
         LET l == _load_blacklisted_tweets_file(blfile, wr)
             new == main.new_blacklisted_tweets
             valid == valid_blacklisted(l.ids, full_tweets_list) IN
         /\ blfile.kind # "absent" => wr = "ok"
         /\ IF l.raised
            THEN /\ wr2 = "ok"
                 /\ blfile' = l.file
                 /\ bl_log' = bl_log \o Logged(l.log, "update", l.file)
                 /\ pc' = "failed"
            ELSE IF blacklist_unchanged(new, valid, l.ids)
            THEN /\ wr2 = "ok"
                 /\ blfile' = l.file
                 /\ bl_log' = bl_log \o Logged(l.log, "update", l.file)
                 /\ pc' = "done"
            ELSE \E full \in full_blacklists(valid, new) :
                   LET c == _create_blacklist_file(l.file, full, wr2) IN
                   /\ blfile' = c.file
                   /\ bl_log' = bl_log \o Logged(l.log, "update", l.file)
                                  \o Logged(<<"write">>, "update", c.file)
                   /\ pc' = IF c.raised THEN "failed" ELSE "done"
    /\ UNCHANGED <<get_seconds, video_vars, extract_vars, codec_vars, prev_runs, args, tweets, full_tweets_list, tweets_list, pos, main,
                   call, disk, disk0, blfile0, outcomes, requested, written>>

Next ==
    \/ FilterBlacklisted
    \/ UseFullList
    \/ BeginDownload
    \/ CheckDisk
    \/ HttpGet
    \/ WriteToDisk
    \/ UpdateBlacklist

Spec == Init /\ [][Next]_vars

\* the run as the one thread of the process executes it: a step that can be
\* taken is taken (every requests.get returns or raises, every write ends),
\* over any feed, with no media file on disk and any blacklist file
InitLive ==
    /\ args \in [disable_blacklist : BOOLEAN, force_download : {FALSE}]
    /\ full_tweets_list \in Feeds
    /\ disk \in InitDisks(full_tweets_list, 0)
    /\ blfile \in InitBlFiles(full_tweets_list, 1)
    /\ args.disable_blacklist => blfile = BlAbsent
    /\ get_seconds = {QuickGet}
    /\ InitRun

SpecLive == InitLive /\ [][Next]_vars /\ WF_vars(Next)

\* the same run over one tweet with media, where a request can also be slow
InitRetry ==
    /\ args \in [disable_blacklist : BOOLEAN, force_download : {FALSE}]
    /\ full_tweets_list \in {<<2>>, <<3>>}
    /\ disk \in InitDisks(full_tweets_list, 0)
    /\ blfile \in {BlAbsent, BlList(<<>>)}
    /\ get_seconds = {QuickGet, SlowGet}
    /\ InitRun

SpecRetry == InitRetry /\ [][Next]_vars

(***************************************************************************)
(* SpecForce: the same loop with download_media called with                *)
(* force_download=True, with any files left by earlier runs                *)
(***************************************************************************)
\* the feeds of these calls: the tweet without media section, the one with
\* two media and the one with one, any of them, in the order of their ids
ForcePosts == {1, 2, 3}
ForceFeeds == {Sorted(S) : S \in SUBSET ForcePosts}

InitForce ==
    /\ args \in [disable_blacklist : BOOLEAN, force_download : {TRUE}]
    /\ full_tweets_list \in ForceFeeds
    /\ \E k \in 0..MaxOld : disk \in InitDisks(full_tweets_list, k)
    /\ blfile \in IF args.disable_blacklist THEN {BlAbsent} ELSE {BlAbsent, BlList(<<>>)}
    /\ get_seconds = {QuickGet}
    /\ InitRun

SpecForce == InitForce /\ [][Next]_vars

(***************************************************************************)
(* SpecRuns: download.py started again after a run that completed, on the  *)
(* download directory and the blacklist file as that run left them         *)
(***************************************************************************)
MaxRuns == 2

\* the feeds of these runs: the tweet without media section, the one with
\* two media and the one with an unknown entry only, any of them, in the
\* order of their ids
RunPosts == {1, 2, 4}
RunFeeds == {Sorted(S) : S \in SUBSET RunPosts}

\* what a completed run leaves for the properties: its feed and options,
\* the blacklist file it started from and the sizes of the bodies it wrote
RunRecord ==
    [feed |-> full_tweets_list, args |-> args, blfile0 |-> blfile0,
     sizes |-> {disk.files[written[i].path].size : i \in DOMAIN written}]

\* download.py 66-76 and 27-35: the same command is run again; the new
\* process fetches the feed again (new Status objects) and starts main
StartRun ==
    /\ pc = "done"
    /\ Len(prev_runs) + 1 < MaxRuns
    /\ prev_runs' = Append(prev_runs, RunRecord)
    /\ args' = args
    /\ full_tweets_list' \in RunFeeds
    /\ tweets' = [t \in Range(full_tweets_list') |-> Catalog[t]]
    /\ tweets_list' = <<>>
    /\ pos' = 0
    /\ main' = NoMain
    /\ call' = NoCall
    /\ pc' = "filter"
    /\ disk0' = disk
    /\ blfile0' = blfile
    /\ outcomes' = <<>>
    /\ requested' = {}
    /\ written' = <<>>
    /\ bl_log' = <<>>
    /\ UNCHANGED <<get_seconds, disk, blfile, video_vars, extract_vars, codec_vars>>

NextRuns == Next \/ StartRun

InitRuns ==
    /\ args \in [disable_blacklist : BOOLEAN, force_download : {FALSE}]
    /\ full_tweets_list \in RunFeeds
    /\ \E k \in 0..1 :
         /\ disk \in InitDisks(full_tweets_list, k)
         /\ blfile \in InitBlFiles(full_tweets_list, 1 - k) \ {BlMalformed}
    /\ get_seconds = {QuickGet}
    /\ InitRun

SpecRuns == InitRuns /\ [][NextRuns]_vars

(***************************************************************************)
(* SpecResume: download.py started again after a run that completed or     *)
(* failed, on the download directory and the blacklist file as that run    *)
(* left them; the first run starts with no media file on disk              *)
(***************************************************************************)
MaxResumes == 3

\* the feeds of these runs: the tweet without media section and the one
\* with two media, any of them, in the order of their ids
ResumePosts == {1, 2}
ResumeFeeds == {Sorted(S) : S \in SUBSET ResumePosts}

\* what a run that ended leaves for the properties: its feed, how it ended
\* (in_loop: by an exception raised while the tweets were processed), what
\* download_media returned and the media files it wrote, with the size of
\* each
ResumeRecord ==
    [feed |-> full_tweets_list, args |-> args, failed |-> pc = "failed",
     in_loop |-> pc = "failed" /\ pos \in 1..Len(tweets_list),
     outcomes |-> outcomes,
     written |-> [i \in DOMAIN written |->
                    [id |-> written[i].id, path |-> written[i].path,
                     size |-> disk.files[written[i].path].size]]]

\* download.py 73-76 and 27-35: main returned, or the exception it let
\* through was logged and the process ended; the same command is run again
Restart ==
    /\ pc \in {"done", "failed"}
    /\ Len(prev_runs) + 1 < MaxResumes
    /\ prev_runs' = Append(prev_runs, ResumeRecord)
    /\ args' = args
    /\ full_tweets_list' \in ResumeFeeds
    /\ tweets' = [t \in Range(full_tweets_list') |-> Catalog[t]]
    /\ tweets_list' = <<>>
    /\ pos' = 0
    /\ main' = NoMain
    /\ call' = NoCall
    /\ pc' = "filter"
    /\ disk0' = disk
    /\ blfile0' = blfile
    /\ outcomes' = <<>>
    /\ requested' = {}
    /\ written' = <<>>
    /\ bl_log' = <<>>
    /\ UNCHANGED <<get_seconds, disk, blfile, video_vars, extract_vars, codec_vars>>

NextResume == Next \/ Restart

InitResume ==
    /\ args \in [disable_blacklist : BOOLEAN, force_download : {FALSE}]
    /\ full_tweets_list \in ResumeFeeds
    /\ disk \in InitDisks(full_tweets_list, 0)
    /\ blfile = BlAbsent
    /\ get_seconds = {QuickGet}
    /\ InitRun

SpecResume == InitResume /\ [][NextResume]_vars

(***************************************************************************)
(* SpecVideo: the handlers applied to every bounded variant list           *)
(***************************************************************************)
InitVideo ==
    /\ given \in VariantLists
    /\ variants_list = given
    /\ picked = [kind |-> "pending"]
    /\ pc = "video"
    /\ args = [disable_blacklist |-> FALSE, force_download |-> FALSE]
    /\ tweets = <<>>
    /\ full_tweets_list = <<>>
    /\ tweets_list = <<>>
    /\ pos = 0
    /\ main = NoMain
    /\ call = NoCall
    /\ disk = NoDisk
    /\ blfile = [kind |-> "absent"]
    /\ get_seconds = {}
    /\ disk0 = NoDisk
    /\ blfile0 = [kind |-> "absent"]
    /\ outcomes = <<>>
    /\ requested = {}
    /\ written = <<>>
    /\ bl_log = <<>>
    /\ prev_runs = <<>>
    /\ NoExtract
    /\ NoCodec

HandleVideo ==
    /\ pc = "video"
    /\ picked.kind = "pending"
    /\ LET r == _handle_media_type_video(variants_list)
       IN  /\ picked' = [kind |-> "video", raised |-> r.raised, url |-> r.url]
           /\ variants_list' = r.variants
    /\ UNCHANGED <<given, pc, run_vars, hist_vars, prev_runs, extract_vars, codec_vars>>

HandleAnimatedGif ==
    /\ pc = "video"
    /\ picked.kind = "pending"
    /\ LET r == _handle_media_type_animated_gif(variants_list)
       IN  /\ picked' = [kind |-> "animated_gif", raised |-> r.raised, url |-> r.url]
           /\ variants_list' = r.variants
    /\ UNCHANGED <<given, pc, run_vars, hist_vars, prev_runs, extract_vars, codec_vars>>

NextVideo == HandleVideo \/ HandleAnimatedGif

SpecVideo == InitVideo /\ [][NextVideo]_vars

\* the variables of a run, at rest
NoRun ==
    /\ args = [disable_blacklist |-> FALSE, force_download |-> FALSE]
    /\ tweets = <<>>
    /\ full_tweets_list = <<>>
    /\ tweets_list = <<>>
    /\ pos = 0
    /\ main = NoMain
    /\ call = NoCall
    /\ disk = NoDisk
    /\ blfile = BlAbsent
    /\ get_seconds = {}
    /\ disk0 = NoDisk
    /\ blfile0 = BlAbsent
    /\ outcomes = <<>>
    /\ requested = {}
    /\ written = <<>>
    /\ bl_log = <<>>
    /\ prev_runs = <<>>
    /\ given = <<>>
    /\ variants_list = <<>>
    /\ picked = [kind |-> "pending"]

(***************************************************************************)
(* SpecCodec: file names as text.  A string is a sequence of characters.   *)
(* _build_filename formats its five values; groupdict_from_filename        *)
(* matches FILENAME_REGEX (utils.py 6) at the start of the string: the     *)
(* groups account (one or more word characters), date (4, 2 and 2 digits   *)
(* with dashes), id (any number of digits), media_count (one digit) and    *)
(* extension (one or more word characters), with '_' between the first     *)
(* four and an unescaped '.' before the last.                              *)
(***************************************************************************)
MaxWord == 2
MaxIndex == 11

DigitChars == <<"0", "1", "2", "3", "4", "5", "6", "7", "8", "9">>
IsDigit(c) == c \in Range(DigitChars)
\* \w
IsWord(c) == IsDigit(c) \/ c = "_" \/ c \in {"a", "x"}

\* the text of an int in an f-string
RECURSIVE Decimal(_)
Decimal(n) ==
    IF n < 10 THEN <<DigitChars[n + 1]>>
    ELSE Decimal(n \div 10) \o <<DigitChars[(n % 10) + 1]>>

\* media.py 93: f"{source_user}_{tweet_time}_{tweet_id}_{media_count}.{extension}"
\* applied to the values _build_filename collects
f_string(name) ==
    name.account \o <<"_">> \o name.date \o <<"_">> \o name.id \o <<"_">>
        \o Decimal(name.media_count) \o <<".">> \o name.extension

AllDigits(s, lo, hi) == \A k \in lo..hi : IsDigit(s[k])
AllWord(s, lo, hi) == \A k \in lo..hi : IsWord(s[k])
\* \d{4}-\d{2}-\d{2} at s[lo..lo+9]
IsDate(s, lo) ==
    /\ AllDigits(s, lo, lo + 3) /\ s[lo + 4] = "-"
    /\ AllDigits(s, lo + 5, lo + 6) /\ s[lo + 7] = "-"
    /\ AllDigits(s, lo + 8, lo + 9)

\* the pattern matches a prefix of s with an account of a characters and an
\* id of n characters: \w+ _ date _ \d* _ \d . \w+ ('.' is any character
\* but a newline)
MatchWith(s, a, n) ==
    /\ a >= 1 /\ Len(s) >= a + n + 16
    /\ AllWord(s, 1, a) /\ s[a + 1] = "_"
    /\ IsDate(s, a + 2) /\ s[a + 12] = "_"
    /\ AllDigits(s, a + 13, a + 12 + n) /\ s[a + 13 + n] = "_"
    /\ IsDigit(s[a + 14 + n])
    /\ s[a + 15 + n] # "\n"
    /\ IsWord(s[a + 16 + n])

Max(S) == CHOOSE x \in S : \A y \in S : y <= x

\* re.match: the quantifiers are greedy, so the engine settles on the longest
\* account for which the rest matches, then the longest id, then the longest
\* extension
COMPILED_FILENAME_REGEX_match(s) ==
    LET accounts == {a \in 1..Len(s) : \E n \in 0..Len(s) : MatchWith(s, a, n)} IN
    IF accounts = {} THEN [matched |-> FALSE]
    ELSE LET a == Max(accounts)
             n == Max({m \in 0..Len(s) : MatchWith(s, a, m)})
             e == Max({k \in (a + 16 + n)..Len(s) : AllWord(s, a + 16 + n, k)})
         IN  [matched |-> TRUE,
              groups |-> [account |-> SubSeq(s, 1, a),
                          date |-> SubSeq(s, a + 2, a + 11),
                          id |-> SubSeq(s, a + 13, a + 12 + n),
                          media_count |-> SubSeq(s, a + 14 + n, a + 14 + n),
                          extension |-> SubSeq(s, a + 16 + n, e)]]

\* utils.py 12-30: the groups, or ValueError when the pattern does not match
groupdict_from_filename(s) ==
    LET matched == COMPILED_FILENAME_REGEX_match(s) IN
    IF ~matched.matched THEN [raised |-> TRUE, groups |-> <<>>]
    ELSE [raised |-> FALSE, groups |-> matched.groups]

\* words of 1..MaxWord word characters, and numbers of 1..MaxWord digits
Strings(chars, max) == UNION {[1..k -> chars] : k \in 1..max}
Words == Strings({"a", "_", "7"}, MaxWord)
Numbers == Strings({"0", "7"}, MaxWord)
\* created_at as strftime("%Y-%m-%d") prints it
Dates == {<<"2", "0", "2", "2", "-", "0", "8", "-", "0", "9">>}

InitCodec ==
    /\ fields \in [tweet : [user : Words, created_at : Dates, id_str : Numbers],
                   media_count : 1..MaxIndex, extension : Words]
    /\ file_name = <<>>
    /\ parsed = [kind |-> "pending"]
    /\ pc = "codec"
    /\ NoRun
    /\ NoExtract

\* media.py 77-93
BuildFilename ==
    /\ pc = "codec"
    /\ file_name = <<>>
    /\ file_name' = f_string(_build_filename(fields.tweet, fields.media_count,
                                             fields.extension))
    /\ UNCHANGED <<fields, parsed, pc, run_vars, hist_vars, prev_runs, video_vars, extract_vars>>

\* utils.py 12-30
ParseFilename ==
    /\ pc = "codec"
    /\ file_name # <<>>
    /\ parsed.kind = "pending"
    /\ LET r == groupdict_from_filename(file_name) IN
       parsed' = [kind |-> "parsed", raised |-> r.raised, groups |-> r.groups]
    /\ UNCHANGED <<fields, file_name, pc, run_vars, hist_vars, prev_runs, video_vars, extract_vars>>

NextCodec == BuildFilename \/ ParseFilename

SpecCodec == InitCodec /\ [][NextCodec]_vars

(***************************************************************************)
(* SpecExtract: get_all_media_from_tweet called, once and again, on one    *)
(* Status object with any bounded media section                            *)
(***************************************************************************)
MaxMedia == 2
MaxEntryVariants == 2
MaxCalls == 2

\* variant lists of the entries: at most MaxEntryVariants variants
EntryVariantLists ==
    {v \in VariantLists :
        Len(v) <= MaxEntryVariants /\ \A i \in DOMAIN v : v[i].url.n <= MaxEntryVariants}

\* the entries of extended_entities['media']: a photo, an entry of a type
\* the code does not know, animated gifs with no or one variant, videos
MediaEntries ==
    {Photo(1), Other(2)}
    \cup {Gif(3, v) : v \in {w \in EntryVariantLists : Len(w) <= 1}}
    \cup {Video(4, v) : v \in EntryVariantLists}

\* a tweet without the attribute extended_entities, or with a media list of
\* at most MaxMedia entries
Posts ==
    {Status(1, FALSE, <<>>)}
    \cup {Status(1, TRUE, m) : m \in UNION {[1..k -> MediaEntries] : k \in 0..MaxMedia}}

InitExtract ==
    /\ post0 \in Posts
    /\ post = post0
    /\ extractions = <<>>
    /\ pc = "extract"
    /\ NoRun
    /\ NoCodec

\* twitter.py 119-155: one call on the object; what the handlers popped
\* from the variant lists stays popped
Extract ==
    /\ pc = "extract"
    /\ Len(extractions) < MaxCalls
    /\ LET r == get_all_media_from_tweet(post) IN
       /\ post' = [post EXCEPT !.media = r.media]
       /\ extractions' = Append(extractions, [raised |-> r.raised, urls |-> r.urls])
    /\ UNCHANGED <<post0, pc, run_vars, hist_vars, prev_runs, video_vars, codec_vars>>

NextExtract == Extract

SpecExtract == InitExtract /\ [][NextExtract]_vars

(***************************************************************************)
(* Properties of the variant selection (SpecVideo)                         *)
(***************************************************************************)
VideoDone == pc = "video" /\ picked.kind = "video"
Declared(list) == {i \in DOMAIN list : HasBitrate(list[i])}
\* the call on list returns the URL of a candidate of list whose bitrate is
\* the highest one declared in list
SelectsHighest(list) ==
    LET r == _handle_media_type_video(list) IN
    /\ ~r.raised
    /\ \E i \in Declared(list) :
         /\ list[i].url = r.url
         /\ \A j \in Declared(list) : list[j].bitrate <= list[i].bitrate

\* C1 (as claimed): whenever at least one candidate of a non-empty list
\* declares a bitrate, the selected candidate is one whose bitrate is the
\* highest declared, in the given order and in every other order of the same
\* candidates.
C1_HighestDeclaredBitrate ==
    (VideoDone /\ Declared(given) # {}) =>
        /\ ~picked.raised
        /\ \E i \in Declared(given) :
             /\ given[i].url = picked.url
             /\ \A j \in Declared(given) : given[j].bitrate <= given[i].bitrate
        /\ \A p \in Orders(Range(given)) : SelectsHighest(p)

NoneDeclared == given # <<>> /\ Declared(given) = {}

Extracted == [t \in 1..NumPosts |-> get_all_media_from_tweet(Catalog[t])]
Descriptors(t) == Extracted[t].urls
HasDescriptors(t) == ~Extracted[t].raised /\ Descriptors(t) # <<>>
Name(t, i) ==
    _build_filename(Catalog[t], i, _get_file_extension_from_url(Descriptors(t)[i][1]))
Primary(t, i) == Path("", Name(t, i))
Alternate(t, i) == Path(Catalog[t].user, Name(t, i))
FetchUrl(t, i) ==
    IF Descriptors(t)[i][2]
    THEN with_size_info(Descriptors(t)[i][1], _get_file_extension_from_url(Descriptors(t)[i][1]))
    ELSE Descriptors(t)[i][1]

IsFile(d, path) == path \in DOMAIN d.files
NonEmpty(d, path) == IsFile(d, path) /\ d.files[path].size > 0
ZeroByte(d, path) == IsFile(d, path) /\ d.files[path].size = 0

OutcomesOf(t) == {outcomes[i] : i \in {j \in DOMAIN outcomes : outcomes[j].id = t}}
RequestedFor(t) == {r \in requested : r.id = t}
WrittenFor(t) == {written[i].path : i \in {j \in DOMAIN written : written[j].id = t}}
\* download_media is running on tweet t
Running(t) == pc \in {"check", "get", "write"} /\ tweets_list[pos] = t

\* when the run started, a non-empty regular file was at the first
\* descriptor's path in the download directory or in the author's
\* subdirectory (no file of tweet t is written before its call)
FirstAlreadyThere(t) ==
    /\ HasDescriptors(t)
    /\ \/ NonEmpty(disk0, Primary(t, 1))
       \/ Catalog[t].user \in disk0.subdirs /\ NonEmpty(disk0, Alternate(t, 1))

\* C3: without force, when a non-empty file is at the first descriptor's
\* primary or alternate path, download_media issues no GET, writes no file
\* and returns (0, true), whatever is at the other descriptors' paths.
C3_ShortCircuit ==
    \A t \in Range(full_tweets_list) :
        (~args.force_download /\ FirstAlreadyThere(t)) =>
            /\ RequestedFor(t) = {}
            /\ WrittenFor(t) = {}
            /\ ~(Running(t) /\ pc \in {"get", "write"})
            /\ \A o \in OutcomesOf(t) : o.count = 0 /\ o.found

C3_Witness ==
    \E t \in Range(full_tweets_list) :
        /\ ~args.force_download /\ FirstAlreadyThere(t)
        /\ ~NonEmpty(disk0, Primary(t, 1))
        /\ Len(Descriptors(t)) >= 2 /\ ~IsFile(disk, Primary(t, 2))
        /\ \E o \in OutcomesOf(t) : o.count = 0 /\ o.found

\* when the run started, the paths of descriptor i held no non-empty file
\* and at least one zero-byte file
OnlyZeroByte(t, i) ==
    /\ disk0.dir_exists
    /\ ~NonEmpty(disk0, Primary(t, i)) /\ ~NonEmpty(disk0, Alternate(t, i))
    /\ ZeroByte(disk0, Primary(t, i)) \/ ZeroByte(disk0, Alternate(t, i))
\* the call on tweet t has come to descriptor i
Reached(t, i) ==
    /\ HasDescriptors(t) /\ i \in 1..Len(Descriptors(t))
    /\ \/ OutcomesOf(t) # {} /\ (i = 1 \/ Primary(t, i - 1) \in WrittenFor(t))
       \/ Running(t) /\ (call.index > i \/ (call.index = i /\ pc # "check"))
Fetched(t, i) ==
    /\ [id |-> t, url |-> FetchUrl(t, i)] \in requested
    /\ Primary(t, i) \in WrittenFor(t)
    /\ \E sz \in {0, 1} : disk.files[Primary(t, i)] = Payload(FetchUrl(t, i), sz)

\* C4: a zero-byte file at a descriptor's primary or alternate path does
\* not count as downloaded: without force, a call that comes to such a
\* descriptor issues a GET for it, and once that descriptor is done (the
\* call is at a later one, or has returned) the primary path holds the body
\* that was fetched.
C4_SelfHealing ==
    \A t \in Range(full_tweets_list) : \A i \in 1..Len(Descriptors(t)) :
        (~args.force_download /\ OnlyZeroByte(t, i) /\ Reached(t, i)) =>
            /\ [id |-> t, url |-> FetchUrl(t, i)] \in requested
               \/ (Running(t) /\ call.index = i /\ pc = "get" /\ call.gets = 0)
            /\ (OutcomesOf(t) # {} \/ (Running(t) /\ call.index > i)) => Fetched(t, i)

C4_Witness ==
    \E t \in Range(full_tweets_list) :
        /\ ~args.force_download /\ HasDescriptors(t)
        /\ ZeroByte(disk0, Primary(t, 1)) /\ ZeroByte(disk0, Alternate(t, 1))
        /\ OutcomesOf(t) # {} /\ Fetched(t, 1)
        /\ disk.files[Primary(t, 1)].size > 0

(***************************************************************************)
(* Properties of the retry (SpecRetry)                                     *)
(***************************************************************************)
\* the last attempt of _download_url failed
HasFailed == call.failed_at # <<>>
Exhausted == pc = "failed" /\ HasFailed

\* C5 (as claimed): at most 5 GETs are issued for a descriptor, one per
\* attempt, with the fixed wait between a failure and the next attempt, and
\* retrying stops as soon as 5 attempts have been made or 60 seconds have
\* passed since the first attempt began: no attempt is due once either holds.
C5_StopsAsSoonAsDelay ==
    /\ call.gets <= MaxAttempts /\ call.gets = call.attempt
    /\ (pc = "get" /\ HasFailed) =>
          /\ call.clock = call.failed_at[1] + WaitFixed
          /\ call.attempt < MaxAttempts /\ call.clock < MaxDelay

\* C5 (amended): at most 5 GETs are issued for a descriptor; each attempt is
\* one GET, so a fetch that succeeds on attempt k has issued k GETs; after a
\* failed attempt the next one begins exactly the fixed wait later, and it
\* is made if and only if fewer than 5 attempts have been made and the
\* failure came less than 60 seconds after the first attempt began;
\* otherwise the failure is raised.  The limits are looked at only when an
\* attempt fails, so an attempt can begin after the 60 seconds.
C5_RetryBound ==
    /\ call.gets <= MaxAttempts /\ call.gets = call.attempt
    /\ pc = "write" => call.gets >= 1
    /\ (pc = "get" /\ HasFailed) =>
          /\ call.attempt < MaxAttempts /\ call.failed_at[1] < MaxDelay
          /\ call.clock = call.failed_at[1] + WaitFixed
    /\ Exhausted =>
          /\ call.attempt = MaxAttempts \/ call.failed_at[1] >= MaxDelay
          /\ call.clock = call.failed_at[1]

C5_Witness ==
    /\ Exhausted /\ call.attempt < MaxAttempts /\ call.attempt >= 2
    /\ call.failed_at[1] >= MaxDelay

(***************************************************************************)
(* Properties of a run (Spec), continued                                   *)
(***************************************************************************)
\* C6: when the retries for a descriptor are exhausted the run is in its
\* failed state and stays there: that descriptor and the later ones of the
\* tweet are not written, no later tweet is extracted, fetched or written,
\* and the blacklist is not updated.
C6_ExhaustionPropagates ==
    (HasFailed /\ retry_stops(call.attempt, call.failed_at[1])) =>
        /\ pc = "failed"
        /\ ~ENABLED Next
        /\ \A i \in call.index..Len(call.urls_list) :
             Primary(tweets_list[pos], i) \notin WrittenFor(tweets_list[pos])
        /\ \A i \in (call.index + 1)..Len(call.urls_list) :
             [id |-> tweets_list[pos], url |-> FetchUrl(tweets_list[pos], i)] \notin requested
        /\ Len(outcomes) = pos - 1
        /\ \A j \in (pos + 1)..Len(tweets_list) :
             /\ RequestedFor(tweets_list[j]) = {} /\ WrittenFor(tweets_list[j]) = {}
             /\ tweets[tweets_list[j]] = Catalog[tweets_list[j]]
        /\ \A i \in DOMAIN bl_log : bl_log[i].by # "update"

C6_Witness ==
    /\ Exhausted /\ call.attempt = MaxAttempts
    /\ call.index < Len(call.urls_list) /\ pos < Len(tweets_list)

\* the list the blacklist file held when the run loaded it
Previous == IF blfile0.kind = "list" THEN blfile0.ids ELSE <<>>
NewEntries == main.new_blacklisted_tweets
Merged == (Range(Previous) \cap Range(full_tweets_list)) \cup Range(NewEntries)
UpdateWrites == {i \in DOMAIN bl_log : bl_log[i].by = "update" /\ bl_log[i].op = "write"}
NoDuplicates(seq) == \A i, j \in DOMAIN seq : i # j => seq[i] # seq[j]

\* C7: whenever update_tweets_blacklist writes the file, the ids written are
\* those of the previous blacklist that are among the fetched tweets' ids,
\* together with the new entries, each once.
C7_MergedBlacklist ==
    (pc = "done" /\ UpdateWrites # {}) =>
        /\ blfile.kind = "list"
        /\ Range(blfile.ids) = Merged
        /\ NoDuplicates(blfile.ids)

C7_Witness ==
    /\ pc = "done" /\ UpdateWrites # {}
    /\ Range(Previous) \ Range(full_tweets_list) # {}
    /\ Range(Previous) \cap Range(full_tweets_list) # {}
    /\ NewEntries # <<>>
    /\ Range(blfile.ids) = Merged

\* the blacklist file as the filter left it
AfterFilter == IF blfile0.kind = "list" THEN blfile0 ELSE BlList(<<>>)

\* C8: update_tweets_blacklist leaves the file as it is exactly when there
\* are no new entries and no previous entry was pruned; in every other case
\* it rewrites the file once, with the merged set.
C8_NoOpWriteAvoided ==
    (pc = "done" /\ ~args.disable_blacklist) =>
        IF NewEntries = <<>> /\ Range(Previous) \subseteq Range(full_tweets_list)
        THEN UpdateWrites = {} /\ blfile = AfterFilter
        ELSE /\ Cardinality(UpdateWrites) = 1
             /\ blfile.kind = "list" /\ Range(blfile.ids) = Merged

C8_Witness ==
    /\ pc = "done" /\ ~args.disable_blacklist
    /\ NewEntries = <<>> /\ Range(Previous) \ Range(full_tweets_list) # {}
    /\ Cardinality(UpdateWrites) = 1 /\ blfile # AfterFilter

\* C9: a tweet is among the new entries only if download_media returned
\* (0, false) for it; a tweet for which it returned (0, true) or (n, true)
\* is neither among the new entries nor in the blacklist file.
C9_FoundNeverBlacklisted ==
    /\ \A t \in Range(NewEntries) : \E o \in OutcomesOf(t) : o.count = 0 /\ ~o.found
    /\ \A i \in DOMAIN outcomes :
         outcomes[i].found =>
            /\ outcomes[i].id \notin Range(NewEntries)
            /\ (blfile.kind = "list" /\ ~args.disable_blacklist) =>
                  outcomes[i].id \notin Range(blfile.ids)

C9_Witness ==
    /\ pc = "done" /\ UpdateWrites # {}
    /\ \E i \in DOMAIN outcomes :
         /\ outcomes[i].count = 0 /\ outcomes[i].found
         /\ outcomes[i].id \notin Range(blfile.ids)
    /\ NewEntries # <<>>

\* the filter has returned
Filtered == ~args.disable_blacklist /\ pos >= 1
IndexIn(seq, x) == CHOOSE i \in DOMAIN seq : seq[i] = x

\* C10: filter_blacklisted_tweets returns exactly the tweets whose id is
\* not in the loaded blacklist, in the order of the input.
C10_FilterKeepsOrder ==
    Filtered =>
        /\ Range(tweets_list) = Range(full_tweets_list) \ Range(Previous)
        /\ NoDuplicates(tweets_list)
        /\ \A i, j \in DOMAIN tweets_list :
             i < j => IndexIn(full_tweets_list, tweets_list[i])
                        < IndexIn(full_tweets_list, tweets_list[j])

C10_Witness ==
    /\ Filtered /\ Len(tweets_list) >= 1 /\ Len(tweets_list) < Len(full_tweets_list)
    /\ tweets_list[1] = full_tweets_list[2]

(***************************************************************************)
(* Properties of successive runs (SpecRuns)                                *)
(***************************************************************************)
\* the ids the blacklist file held when this run started that the feed of
\* this run still returns
StillListed == Range(Previous) \cap Range(full_tweets_list)

\* C11: in every run with the blacklist enabled, first or later, a tweet
\* whose id is in the blacklist file when the run starts and that the feed
\* still returns is not extracted, fetched or written in that run, and its id
\* is in the blacklist file when the run completes; an id of the previous
\* blacklist is missing from the file of a completed run only if the feed of
\* that run does not contain it.
C11_BlacklistedNeverRefetched ==
    ~args.disable_blacklist =>
        /\ \A t \in StillListed :
             /\ pos >= 1 => t \notin Range(tweets_list)
             /\ OutcomesOf(t) = {} /\ RequestedFor(t) = {} /\ WrittenFor(t) = {}
             /\ pc = "done" => (blfile.kind = "list" /\ t \in Range(blfile.ids))
        /\ pc = "done" =>
             \A t \in Range(Previous) :
                 t \notin Range(blfile.ids) => t \notin Range(full_tweets_list)

\* a second run keeps, while it rewrites the file, an id the first run put
\* there, and drops one whose tweet the feed has lost
C11_Witness ==
    /\ Len(prev_runs) = 1 /\ ~args.disable_blacklist /\ pc = "done"
    /\ UpdateWrites # {}
    /\ \E t \in StillListed :
         /\ prev_runs[1].blfile0.kind = "list" => t \notin Range(prev_runs[1].blfile0.ids)
         /\ t \in Range(prev_runs[1].feed)
         /\ t \in Range(blfile.ids)
    /\ \E u \in Range(Previous) : u \notin Range(full_tweets_list) /\ u \notin Range(blfile.ids)

\* this run follows a completed run over the same feed with the same options
LastRun == prev_runs[Len(prev_runs)]
SecondRun ==
    /\ prev_runs # <<>>
    /\ LastRun.feed = full_tweets_list /\ LastRun.args = args
\* the run has issued no GET, written no media file and left the blacklist
\* file as it found it
NothingDone ==
    /\ requested = {} /\ written = <<>> /\ disk.files = disk0.files
    /\ blfile = blfile0
    /\ \A i \in DOMAIN bl_log : bl_log[i].op = "read"

\* C12 (as claimed): a second run over the same feed, on the directory and
\* the blacklist file as the first, completed run left them, issues no GET,
\* writes no media file and does not change the blacklist file.
C12_ExactlyOnce == SecondRun => NothingDone

\* C12 (amended): the same, provided every media file the first run wrote is
\* non-empty (an empty body is written as a zero-byte file, which the next
\* run takes as not downloaded and fetches again).
C12_ExactlyOnceNonEmpty == (SecondRun /\ 0 \notin LastRun.sizes) => NothingDone

C12_Witness ==
    /\ SecondRun /\ pc = "done" /\ ~args.disable_blacklist
    /\ LastRun.sizes = {1}
    /\ LastRun.blfile0 = BlAbsent /\ blfile.kind = "list" /\ blfile.ids # <<>>
    /\ \E t \in Range(full_tweets_list) :
         /\ HasDescriptors(t) /\ Len(Descriptors(t)) >= 2
         /\ \E o \in OutcomesOf(t) : o.count = 0 /\ o.found
    /\ NothingDone

(***************************************************************************)
(* Properties of a run (Spec): what download_media returns                 *)
(***************************************************************************)
\* the number of media files the call on tweet t wrote
WrittenCount(t) == Cardinality({j \in DOMAIN written : written[j].id = t})

\* C13 (as claimed): the count download_media returns is the number of media
\* files that call wrote (a count of 0 means it wrote none), and after the
\* loop main's downloaded_media_count is the number of files written in the
\* run.
C13_CountEqualsWritten ==
    /\ \A i \in DOMAIN outcomes : outcomes[i].count = WrittenCount(outcomes[i].id)
    /\ pc \in {"update", "done"} => main.downloaded_media_count = Len(written)

\* C14: when the blacklist file does not exist, the load of the filter
\* creates it holding the empty list and returns the empty blacklist, and
\* the filter returns its input: the same tweets in the same order.
C14_AbsenceIsNotAnError ==
    (~args.disable_blacklist /\ blfile0 = BlAbsent /\ pos >= 1) =>
        /\ tweets_list = full_tweets_list
        /\ Len(bl_log) >= 2
        /\ bl_log[1] = [op |-> "read", by |-> "filter", file |-> BlList(<<>>)]
        /\ bl_log[2] = [op |-> "create", by |-> "filter", file |-> BlList(<<>>)]
        /\ Len(bl_log) = 2 => blfile = BlList(<<>>)

C14_Witness ==
    /\ ~args.disable_blacklist /\ blfile0 = BlAbsent /\ pc = "post" /\ pos = 1
    /\ Len(full_tweets_list) = 2 /\ tweets_list = full_tweets_list
    /\ blfile = BlList(<<>>)

(***************************************************************************)
(* Properties of the file names (SpecCodec)                                *)
(***************************************************************************)
\* C15 (as claimed): for every author and extension of word characters,
\* every date, every numeric id and every media index from 1 on, 10 and
\* more included, parsing the name _build_filename gives succeeds and
\* returns the five values the name was built from.
C15_FilenameRoundTrip ==
    parsed.kind = "parsed" =>
        /\ ~parsed.raised
        /\ parsed.groups = [account |-> fields.tweet.user,
                            date |-> fields.tweet.created_at,
                            id |-> fields.tweet.id_str,
                            media_count |-> Decimal(fields.media_count),
                            extension |-> fields.extension]

(***************************************************************************)
(* Properties of the extraction (SpecExtract)                              *)
(***************************************************************************)
Recognized(m) == m.type \in {"animated_gif", "video", "photo"}
\* the entries of the tweet's media section that are of a known type
RecognizedEntries(tweet) ==
    IF tweet.has_ee THEN SelectSeq(tweet.media, Recognized) ELSE <<>>

\* C16 (as claimed): get_all_media_from_tweet returns a list and does not
\* raise, whatever the tweet: no media section, entries of unknown type
\* (skipped, the others returned), videos with an empty or a one-element
\* variant list, animated gifs with an empty variant list.
C16_ExtractionNeverFails ==
    extractions # <<>> =>
        /\ ~extractions[1].raised
        /\ Len(extractions[1].urls) = Len(RecognizedEntries(post0))

\* C20 (as claimed): when get_all_media_from_tweet has returned, the tweet's
\* media entries and their variant lists are what they were before the
\* call, and a second call on the tweet returns the same list as the first.
C20_ExtractionLeavesPostUnchanged ==
    (extractions # <<>> /\ ~extractions[1].raised) =>
        /\ post = post0
        /\ Len(extractions) >= 2 => extractions[2] = extractions[1]

(***************************************************************************)
(* Properties of a run (Spec): the media_found flag                        *)
(***************************************************************************)
\* C17 (as claimed): download_media returns media_found = false only for a
\* tweet without a media section; a tweet that has one is not made a
\* blacklist candidate.
C17_FalseOnlyWithoutSection ==
    /\ \A i \in DOMAIN outcomes :
         ~outcomes[i].found => ~Catalog[outcomes[i].id].has_ee
    /\ \A t \in Range(NewEntries) : ~Catalog[t].has_ee

\* C17 (amended): download_media returns media_found = false exactly when
\* extraction yields no descriptor, that is when the tweet has no media
\* section or its section holds no entry of a known type; it then returns
\* (0, false) and, with the blacklist enabled, the tweet is a blacklist
\* candidate.
C17_FalseIffNoDescriptors ==
    \A i \in DOMAIN outcomes :
        /\ ~outcomes[i].found <=> RecognizedEntries(Catalog[outcomes[i].id]) = <<>>
        /\ ~outcomes[i].found => outcomes[i].count = 0
        /\ ~args.disable_blacklist =>
              (outcomes[i].id \in Range(NewEntries) <=> ~outcomes[i].found)

C17_Witness ==
    /\ pc = "done" /\ ~args.disable_blacklist
    /\ \E i \in DOMAIN outcomes :
         /\ Catalog[outcomes[i].id].has_ee /\ Catalog[outcomes[i].id].media # <<>>
         /\ ~outcomes[i].found /\ outcomes[i].count = 0
         /\ outcomes[i].id \in Range(NewEntries)
         /\ blfile.kind = "list" /\ outcomes[i].id \in Range(blfile.ids)

\* the call on tweet t stopped at the first descriptor: nothing fetched,
\* nothing written, (0, true) returned
AlreadyOnDisk(o) ==
    /\ o.count = 0 /\ o.found
    /\ RequestedFor(o.id) = {} /\ WrittenFor(o.id) = {}
\* the call fetched and wrote every descriptor and returned their number
Downloaded(o) ==
    /\ o.count = Len(Descriptors(o.id)) /\ o.found
    /\ \A k \in 1..Len(Descriptors(o.id)) :
         /\ [id |-> o.id, url |-> FetchUrl(o.id, k)] \in requested
         /\ Primary(o.id, k) \in WrittenFor(o.id)

\* C18 (as claimed): a download_media call without force on a tweet with
\* descriptors that returns is either AlreadyOnDisk or Downloaded; none
\* returns after fetching some of the descriptors and not all.
C18_AllOrNothing ==
    \A i \in DOMAIN outcomes :
        HasDescriptors(outcomes[i].id) =>
            AlreadyOnDisk(outcomes[i]) \/ Downloaded(outcomes[i])

(***************************************************************************)
(* Properties of a run (Spec): accesses to the blacklist file              *)
(***************************************************************************)
Reads == {i \in DOMAIN bl_log : bl_log[i].op = "read"}
\* the file is opened for writing: created by a load, or written by the update
Writes == {i \in DOMAIN bl_log : bl_log[i].op \in {"create", "write"}}
InLoop == pc \in {"post", "check", "get", "write"}

\* C19 (as claimed): in a run (with the blacklist enabled) the file is read
\* exactly once, at the start and before any tweet is processed, and written
\* at most once, at the end after all tweets were processed, also in a run
\* that starts without the file.
C19_ReadOnceWrittenOnce ==
    ~args.disable_blacklist =>
        /\ (InLoop \/ pc \in {"update", "done"}) => Reads = {1}
        /\ InLoop \/ pc = "update" => Writes = {}
        /\ pc = "done" =>
              /\ Cardinality(Writes) <= 1
              /\ \A i \in Writes : bl_log[i].by = "update"

\* C19 (amended): in a completed run with the blacklist enabled the file is
\* read exactly twice: by the filter at the start, before any tweet is
\* processed, and by the update at the end, after all of them; the update
\* writes it at most once, after its read; a run that starts without the
\* file also creates it in the filter's load, so that such a run can write
\* it twice.  Nothing accesses the file while the tweets are processed, and
\* a run with the blacklist disabled never accesses it.
C19_ReadTwiceWrittenAtEnd ==
    /\ args.disable_blacklist => bl_log = <<>>
    /\ pc = "filter" => bl_log = <<>>
    /\ (~args.disable_blacklist /\ (InLoop \/ pc = "update")) =>
          /\ Reads = {1} /\ bl_log[1].by = "filter"
          /\ Writes = IF blfile0 = BlAbsent THEN {2} ELSE {}
          /\ \A i \in Writes : bl_log[i].op = "create" /\ bl_log[i].by = "filter"
          /\ Len(bl_log) = Cardinality(Reads) + Cardinality(Writes)
    /\ (~args.disable_blacklist /\ pc = "done") =>
          LET first == IF blfile0 = BlAbsent THEN 2 ELSE 1 IN
          /\ Reads = {1, first + 1}
          /\ bl_log[1].by = "filter" /\ bl_log[first + 1].by = "update"
          /\ Len(bl_log) \in {first + 1, first + 2}
          /\ \A i \in DOMAIN bl_log :
                /\ bl_log[i].op = "create" <=> (blfile0 = BlAbsent /\ i = 2)
                /\ bl_log[i].op = "write" <=> i = first + 2
                /\ i > first => bl_log[i].by = "update"

C19_Witness ==
    /\ pc = "done" /\ ~args.disable_blacklist /\ blfile0 = BlAbsent
    /\ Len(outcomes) = 2
    /\ Cardinality(Reads) = 2 /\ Cardinality(Writes) = 2
    /\ bl_log[4].op = "write" /\ bl_log[4].file # BlList(<<>>)

FoundWithoutMedia(t) == \E o \in OutcomesOf(t) : o.count = 0 /\ ~o.found

\* C22: every id in a blacklist file that update_tweets_blacklist wrote was
\* in the blacklist the run read at its start, or is the id of a tweet for
\* which download_media returned (0, false) in this run; no id of a tweet
\* for which it returned (0, true) or (n, true) is in a written file.
C22_BlacklistProvenance ==
    \A i \in UpdateWrites :
        bl_log[i].file.kind = "list" =>
            \A t \in Range(bl_log[i].file.ids) :
                /\ t \in Range(Previous) \/ FoundWithoutMedia(t)
                /\ \A o \in OutcomesOf(t) : o.count = 0 /\ ~o.found

\* the written file holds a kept id and a new one, and a tweet for which
\* media was found was processed in the same run
C22_Witness ==
    /\ pc = "done" /\ UpdateWrites # {} /\ blfile.kind = "list"
    /\ \E t \in Range(blfile.ids) : t \in Range(Previous) /\ OutcomesOf(t) = {}
    /\ \E u \in Range(blfile.ids) : u \notin Range(Previous) /\ FoundWithoutMedia(u)

C22_WitnessFound ==
    /\ pc = "done" /\ UpdateWrites # {} /\ blfile.kind = "list"
    /\ \E u \in Range(blfile.ids) : u \notin Range(Previous) /\ FoundWithoutMedia(u)
    /\ \E i \in DOMAIN outcomes :
         outcomes[i].found /\ outcomes[i].count > 0 /\ outcomes[i].id \notin Range(blfile.ids)

(***************************************************************************)
(* Properties of a forced download (SpecForce)                             *)
(***************************************************************************)
\* the paths of the media files written for tweet t, in the order written
WrittenSeq(t) ==
    LET mine == SelectSeq(written, LAMBDA w : w.id = t) IN
    [k \in DOMAIN mine |-> mine[k].path]
\* when the run started a non-empty file was at a path of descriptor i
ThereAtStart(t, i) ==
    NonEmpty(disk0, Primary(t, i)) \/ NonEmpty(disk0, Alternate(t, i))

\* C23: with force_download, download_media on a tweet with n >= 1
\* descriptors never stops at a file on disk: the descriptors are fetched
\* and written one after the other in the order of the list, each primary
\* path then holds the body fetched for it, and a call that returns has
\* fetched and written all n and returns (n, true), whatever files were
\* there (a call that does not return has failed: retries exhausted, or a
\* write that failed).
C23_ForceIgnoresExistingFiles ==
    args.force_download =>
        \A t \in Range(full_tweets_list) :
            HasDescriptors(t) =>
                /\ Len(WrittenSeq(t)) <= Len(Descriptors(t))
                /\ \A k \in DOMAIN WrittenSeq(t) :
                     WrittenSeq(t)[k] = Primary(t, k) /\ Fetched(t, k)
                /\ Running(t) => call.index = Len(WrittenSeq(t)) + 1
                /\ \A o \in OutcomesOf(t) :
                     /\ o.found /\ o.count = Len(Descriptors(t))
                     /\ Len(WrittenSeq(t)) = Len(Descriptors(t))

C23_Witness ==
    /\ args.force_download
    /\ \E t \in Range(full_tweets_list) :
         /\ HasDescriptors(t) /\ Len(Descriptors(t)) = 2
         /\ NonEmpty(disk0, Primary(t, 1)) /\ NonEmpty(disk0, Primary(t, 2))
         /\ \E o \in OutcomesOf(t) : o.count = 2 /\ o.found
         /\ Fetched(t, 1) /\ Fetched(t, 2)
         /\ disk.files[Primary(t, 1)] # disk0.files[Primary(t, 1)]

(***************************************************************************)
(* Properties of runs after a failed run (SpecResume)                      *)
(***************************************************************************)
\* the media files run r wrote for tweet t, in the order written
WrittenBy(r, t) == SelectSeq(r.written, LAMBDA w : w.id = t)
\* run r wrote non-empty files for the descriptors 1..k of tweet t, no
\* other file of t, and failed
PartialBy(r, t, k) ==
    /\ r.failed
    /\ Len(WrittenBy(r, t)) = k
    /\ \A i \in 1..k : WrittenBy(r, t)[i].path = Primary(t, i) /\ WrittenBy(r, t)[i].size > 0

\* C24: when an earlier run wrote non-empty files for the descriptors 1..k
\* (1 <= k < n) of a tweet with n descriptors and then failed, no later run
\* without force fetches or writes anything for that tweet: each
\* download_media call on it returns (0, true) at the first descriptor, and
\* the paths of the descriptors k+1..n are left as they were.
C24_PartialNeverCompleted ==
    \A j \in DOMAIN prev_runs : \A t \in 1..NumPosts :
        \A k \in 1..(Len(Descriptors(t)) - 1) :
            (~args.force_download /\ PartialBy(prev_runs[j], t, k)) =>
                /\ \A l \in (j + 1)..Len(prev_runs) : WrittenBy(prev_runs[l], t) = <<>>
                /\ RequestedFor(t) = {} /\ WrittenFor(t) = {}
                /\ Running(t) => pc = "check" /\ call.index = 1
                /\ \A o \in OutcomesOf(t) : o.count = 0 /\ o.found
                /\ \A i \in (k + 1)..Len(Descriptors(t)) :
                     /\ IsFile(disk, Primary(t, i)) <=> IsFile(disk0, Primary(t, i))
                     /\ IsFile(disk, Primary(t, i)) =>
                           disk.files[Primary(t, i)] = disk0.files[Primary(t, i)]

\* the first run failed after the first of two files, the second and the
\* third run each returned (0, true) for the tweet, and the second file is
\* still missing
C24_Witness ==
    /\ Len(prev_runs) = 2 /\ pc = "done" /\ ~args.force_download
    /\ \E t \in Range(full_tweets_list) :
         /\ Len(Descriptors(t)) = 2 /\ PartialBy(prev_runs[1], t, 1)
         /\ t \in Range(prev_runs[2].feed) /\ ~prev_runs[2].failed
         /\ \E o \in OutcomesOf(t) : o.count = 0 /\ o.found
         /\ ~IsFile(disk, Primary(t, 2))

(***************************************************************************)
(* Termination of a run (SpecLive)                                         *)
(***************************************************************************)
Ended == pc \in {"done", "failed"}
\* the ids of the tweets download_media has returned for, in order
Processed == [i \in DOMAIN outcomes |-> outcomes[i].id]

\* C25: whatever the feed and whatever each GET and each write ends with,
\* the run comes to its completed state (every surviving tweet processed,
\* the blacklist updated or left alone) or to its failed state and stays
\* there; at most 5 GETs are issued for a descriptor, and download_media
\* returns at most once per tweet, for the surviving tweets in their order.
C25_EveryRunTerminates ==
    /\ [](call.gets <= MaxAttempts)
    /\ [](NoDuplicates(Processed) /\ Len(Processed) <= Len(tweets_list)
           /\ \A i \in DOMAIN Processed : Processed[i] = tweets_list[i])
    /\ [](Ended => ~ENABLED Next)
    /\ [](pc = "done" => Len(Processed) = Len(tweets_list))
    /\ <>Ended

\* a run that completed after four failed attempts for a descriptor
C25_Witness ==
    /\ pc = "done" /\ Len(outcomes) = 2 /\ Len(written) >= 2
    /\ \E t \in Range(full_tweets_list) : \E o \in OutcomesOf(t) : o.count = 2

C25_WitnessFailed ==
    /\ Exhausted /\ call.attempt = MaxAttempts /\ Len(outcomes) = 1

(***************************************************************************)
(* Properties of every run of SpecRuns: the written blacklist and the feed *)
(***************************************************************************)
\* the ids of the tweets the feed returned in this run
FetchedIds == Range(full_tweets_list)

\* C26: the new entries are ids of fetched tweets, and every id in a
\* blacklist file the run wrote (created by a load, or written by the
\* update, whose write succeeded exactly when the run completed) is the id
\* of a tweet of the feed fetched in that run.
C26_WrittenSubsetOfFetched ==
    /\ Range(NewEntries) \subseteq FetchedIds
    /\ \A i \in Writes :
         (bl_log[i].op = "create" /\ bl_log[i].file.kind = "list") =>
            Range(bl_log[i].file.ids) \subseteq FetchedIds
    /\ (pc = "done" /\ UpdateWrites # {}) =>
         blfile.kind = "list" /\ Range(blfile.ids) \subseteq FetchedIds

\* the file read at the start held an id the feed has lost and one it still
\* returns; the file written holds the second and not the first
C26_Witness ==
    /\ pc = "done" /\ UpdateWrites # {} /\ blfile.kind = "list"
    /\ \E s \in Range(Previous) : s \notin FetchedIds /\ s \notin Range(blfile.ids)
    /\ \E t \in Range(Previous) : t \in FetchedIds /\ t \in Range(blfile.ids)
    /\ Range(blfile.ids) \subseteq FetchedIds

(***************************************************************************)
(* Properties of a run that failed in the loop (SpecResume)                *)
(***************************************************************************)
\* the run has failed while the tweets were processed: in extraction, at
\* the missing directory, by exhausted retries or in a write
FailedInLoop == pc = "failed" /\ pos \in 1..Len(tweets_list)
\* the blacklist file as the load at the start of the run left it
AsLoaded == IF args.disable_blacklist THEN blfile0 ELSE AfterFilter
\* the ids of the tweets for which download_media returned (0, false) in run r
MediaLess(r) == {r.outcomes[i].id : i \in {j \in DOMAIN r.outcomes : ~r.outcomes[j].found}}

\* C27: exhausted retries end the run while the tweets are processed, as a
\* failed write and a missing directory do; a run that fails there never calls
\* update_tweets_blacklist: the blacklist file holds what the load at the
\* start of the run left in it, without the ids of the tweets found without
\* media in that run; in the run after it those tweets, when the feed
\* returns them again, pass the filter and are extracted again.
C27_FailedRunKeepsBlacklist ==
    /\ (HasFailed /\ retry_stops(call.attempt, call.failed_at[1])) => FailedInLoop
    /\ FailedInLoop =>
          /\ \A i \in DOMAIN bl_log : bl_log[i].by # "update"
          /\ blfile = AsLoaded
          /\ \A i \in DOMAIN outcomes :
                ~outcomes[i].found =>
                    (blfile.kind = "list" => outcomes[i].id \notin Range(blfile.ids))
    /\ (prev_runs # <<>> /\ LastRun.in_loop) =>
          \A t \in MediaLess(LastRun) \cap Range(full_tweets_list) :
              /\ pos >= 1 => t \in Range(tweets_list)
              /\ pc \in {"update", "done"} => FoundWithoutMedia(t)

\* the first run made a tweet a candidate and then failed at the next
\* tweet; the second run found the file without it, processed it again and
\* wrote its id
C27_Witness ==
    /\ Len(prev_runs) = 1 /\ LastRun.in_loop /\ ~args.disable_blacklist
    /\ pc = "done" /\ blfile0 = BlList(<<>>)
    /\ \E t \in MediaLess(LastRun) :
         /\ FoundWithoutMedia(t)
         /\ blfile.kind = "list" /\ t \in Range(blfile.ids)

====
